---- MODULE Spec2Model ----
(***************************************************************************)
(* A model of crunchy's release pipeline (src/main.go): run drives         *)
(* build -> docker build -> docker push -> parseDigest -> deployServices   *)
(* (one goroutine per service, joined by a WaitGroup, errors collected     *)
(* through a buffered channel) -> cleanupOldImages.  The build selector    *)
(* (determineLanguage, detectLanguage, buildProject: src/src/index.ts) is  *)
(* modelled beside it; run does not call it.                               *)
(*                                                                         *)
(* Text is a sequence of symbols.  The symbols are Marker (the substring   *)
(* "digest:", which cannot overlap itself, so one symbol stands for each   *)
(* of its occurrences), SP (a white-space character other than newline),   *)
(* NL (newline) and any other string (a non-space character, or, in a      *)
(* revision listing, a whole revision name).                               *)
(***************************************************************************)
EXTENDS Integers, Sequences, FiniteSets, TLC

\* ------------------------------------------------------------------ bounds
MaxLen == 4      \* longest push transcript of SpecDigest, in symbols
MaxRevs == 4     \* most revisions a service has before the run
MaxKeep == 2     \* largest --keep-revisions / --keep-images
MaxTags == 3     \* most records in an image tag listing

\* ------------------------------------------------------------------ text
Marker == "digest:"
SP == " "
NL == "\n"

IsSpace(c) == c \in {SP, NL}

RECURSIVE SplitOn(_, _)
\* strings.Split(s, sep) for a one-symbol separator
SplitOn(s, sep) ==
  IF \A i \in 1..Len(s) : s[i] # sep
  THEN <<s>>
  ELSE LET i == CHOOSE k \in 1..Len(s) : s[k] = sep /\ \A j \in 1..(k - 1) : s[j] # sep
       IN  <<SubSeq(s, 1, i - 1)>> \o SplitOn(SubSeq(s, i + 1, Len(s)), sep)

\* strings.TrimSpace
TrimSpace(s) ==
  LET keep == {i \in 1..Len(s) : ~IsSpace(s[i])}
  IN  IF keep = {} THEN <<>>
      ELSE LET lo == CHOOSE i \in keep : \A j \in keep : i <= j
               hi == CHOOSE i \in keep : \A j \in keep : j <= i
           IN  SubSeq(s, lo, hi)

\* strings.Contains(s, sub) for a one-symbol sub
Contains(s, sub) == \E i \in 1..Len(s) : s[i] = sub

RECURSIVE Fields(_)
\* strings.Fields: the maximal runs of non-space symbols
Fields(s) ==
  IF \A i \in 1..Len(s) : IsSpace(s[i])
  THEN <<>>
  ELSE LET b == CHOOSE k \in 1..Len(s) : ~IsSpace(s[k]) /\ \A j \in 1..(k - 1) : IsSpace(s[j])
           after == {k \in b..Len(s) : IsSpace(s[k])}
           e == IF after = {} THEN Len(s) + 1
                ELSE CHOOSE k \in after : \A j \in after : k <= j
       IN  <<SubSeq(s, b, e - 1)>> \o Fields(SubSeq(s, e, Len(s)))

\* --------------------------------------------------------------- parseDigest
NotFound == [ok |-> FALSE, digest |-> <<>>]

RECURSIVE parseDigestFromFirstOnly(_, _)
\* the loop giving up at the first marker line when it carries no token
parseDigestFromFirstOnly(lines, i) ==
  IF i > Len(lines)
  THEN NotFound
  ELSE LET line == TrimSpace(lines[i])
       IN  IF Contains(line, Marker)
           THEN LET fields == Fields(TrimSpace(SplitOn(line, Marker)[2]))
                IN  IF Len(fields) = 0
                    THEN NotFound
                    ELSE [ok |-> TRUE, digest |-> fields[1]]
           ELSE parseDigestFromFirstOnly(lines, i + 1)

RECURSIVE parseDigestFrom(_, _)
\* the loop of parseDigest over lines[i..]
parseDigestFrom(lines, i) ==
  IF i > Len(lines)
  THEN NotFound
  ELSE LET line == TrimSpace(lines[i])
       IN  IF Contains(line, Marker)
           THEN LET parts == SplitOn(line, Marker)
                IN  IF Len(parts) < 2
                    THEN parseDigestFrom(lines, i + 1)
                    ELSE LET fields == Fields(TrimSpace(parts[2]))
                         IN  IF Len(fields) = 0
                             THEN parseDigestFrom(lines, i + 1)
                             ELSE [ok |-> TRUE, digest |-> fields[1]]
           ELSE parseDigestFrom(lines, i + 1)

\* the digest cut from the last but one line alone, whatever the others hold
parseDigestSecondLast(output) ==
  LET lines == SplitOn(output, NL)
  IN  IF Len(lines) < 2 THEN NotFound
      ELSE parseDigestFrom(<<lines[Len(lines) - 1]>>, 1)

parseDigest(output) == parseDigestFrom(SplitOn(output, NL), 1)


\* ------------------------------------------------------------------ values
Names == {"A", "B", "C"}
\* the --svc lists tried: one, two and three services, and a repeated one
\* (splitServices removes no duplicate)
ServiceLists == {<<"A">>, <<"A", "B">>, <<"A", "A">>, <<"A", "B", "C">>}
\* cfg.registryHost/cfg.project/cfg.image
Repo == "host/project/image"
\* what docker push may print in a release run: a transcript with a digest
\* line, one with no marker, and one whose only marker carries no token
\* (SpecDigest tries every short transcript)
PushTranscripts ==
  { <<"x", NL, "t", Marker, SP, "h", SP, "s", NL>>,
    <<"x", NL, "y", NL>>,
    <<"x", Marker, SP, NL>> }

NoImage == <<"", "", <<>>>>
NoTarget == <<>>
\* an external command as executed: what it is, the service or revision it
\* names, the image reference it names, and whether it exited zero
Cmd(op, target, img, ok) == [op |-> op, target |-> target, image |-> img, ok |-> ok]
\* an error is its message, a text; nil is the empty text (no message the
\* program builds is empty)
NoErr == <<>>
Err(kind, subject) == <<kind>> \o subject

\* ------------------------------------------------------------------ state
VARIABLES
  cfg,         \* config: beta, services, keepImgs, keepRevs (read-only)
  pc,          \* where main/run is
  imageTag,    \* run's imageTag
  pushOutput,  \* run's pushOutput
  digest,      \* run's digest
  image,       \* run's fullImagePath, deployServices' image
  runErr,      \* the error run returns: its entries, <<>> for nil
  exitCode,    \* the process's exit status, -1 while it runs
  donePrinted, \* main printed the Done line
  cmds,        \* the commands run's own goroutine has executed, in order
  spawned,     \* deployServices: how many goroutines the loop has started
  wg,          \* the WaitGroup's counter
  errs,        \* the buffered channel's content
  dsErr,       \* what deployServices returned: the entries of its error
  tpc,         \* per task: where its goroutine is
  revisions,   \* per task: deployService's revisions
  pending,     \* per task: what is left of the range over revisions[keepRevs:]
  terr,        \* per task: the error deployService returned
  tcmds,       \* per task: the commands it has executed, in order
  svcRevs,     \* platform: per service, its revisions' names, newest first
  revCount,    \* platform: per service, how many revisions it ever had
  svcImage,    \* platform: per service, the image of its newest revision
  traffic,     \* platform: per service, the revision that gets the traffic
  listing,     \* registry: the JSON array list-tags printed
  tags,        \* cleanupOldImages' tags
  cidx,        \* cleanupOldImages: the index of the next record of the loop
  imgDeleted,  \* registry: the image references deleted, in order
  workdir,     \* the marker files present in the working directory
  requested,   \* the explicit build-tool choice, a text; empty for none
  lang,        \* what determineLanguage returned, once it has
  oracle,      \* the task commands' behaviour: free, or fixed for the run
  flags,       \* the values of --region and --registry-host, as typed
  host         \* cfg.registryHost, once parseConfig has set it

vars == <<cfg, pc, imageTag, pushOutput, digest, image, runErr, exitCode,
          donePrinted, cmds, spawned, wg, errs, dsErr, tpc, revisions, pending,
          terr, tcmds, svcRevs, revCount, svcImage, traffic, listing, tags,
          cidx, imgDeleted, workdir, requested, lang, oracle, flags, host>>

runVars == <<imageTag, pushOutput, digest, image, runErr, cmds>>
mainVars == <<exitCode, donePrinted>>
joinVars == <<spawned, wg, errs, dsErr>>
taskVars == <<tpc, revisions, pending, terr, tcmds>>
platformVars == <<svcRevs, revCount, svcImage, traffic>>
cleanupVars == <<listing, tags, cidx, imgDeleted>>
envVars == <<workdir, requested, lang, oracle, flags, host>>

Tasks == 1..Len(cfg.services)

\* the behaviour of the platform's commands: any command may fail at any time
\* (free), or the commands in fails fail and the others succeed, whenever run
FreeOracle(n) == [fixed |-> FALSE, fails |-> {}, n |-> n]
FixedOracle(F, n) == [fixed |-> TRUE, fails |-> F, n |-> n]

\* whether cmd.Run() returns nil for the command op on target
Outcomes(op, target) ==
  IF oracle.fixed THEN {<<op, target>> \notin oracle.fails} ELSE BOOLEAN

\* no determineLanguage call yet
NoLang == [done |-> FALSE, tool |-> <<>>, err |-> <<>>]

\* parseConfig has not set the registry host yet
NoHost == [done |-> FALSE, value |-> <<>>]
\* a run started with --region me and no --registry-host, and the host
\* parseConfig gave it
DefaultFlags == [region |-> <<"m", "e">>, registryHost |-> <<>>]
DefaultHost == [done |-> TRUE, value |-> <<"g", "c", "r", ".", "i", "o">>]

\* the working directory, the explicit choice, the commands' behaviour, the
\* flags and the registry host
EnvAll(w, r, o, f, h) ==
  /\ workdir = w
  /\ requested = r
  /\ lang = NoLang
  /\ oracle = o
  /\ flags = f
  /\ host = h

\* the same after parseConfig, on the default flags
EnvWith(w, r, o) == EnvAll(w, r, o, DefaultFlags, DefaultHost)

\* the name the platform gives the k-th revision of service s
RevName(s, k) == s \o "-" \o ToString(k)

\* the services' revisions before the run: n of them each, newest first
InitialRevs(n) == [s \in Names |-> [j \in 1..n |-> RevName(s, n + 1 - j)]]

\* a config parseConfig accepts (keep counts >= 1), or, with minKeep = 0, any
\* config a caller of deployServices can pass
Configs(minKeep) ==
  [beta : BOOLEAN, services : ServiceLists,
   keepImgs : 1..MaxKeep, keepRevs : minKeep..MaxKeep]

\* the state with config c and n revisions a service, at entry point p, img
\* being the image reference in hand there
InitWith(c, n, p, img) ==
  /\ cfg = c
  /\ pc = p
  /\ imageTag = NoImage
  /\ pushOutput = <<>>
  /\ digest = <<>>
  /\ image = img
  /\ runErr = NoErr
  /\ exitCode = -1
  /\ donePrinted = FALSE
  /\ cmds = <<>>
  /\ spawned = 0
  /\ wg = 0
  /\ errs = <<>>
  /\ dsErr = <<>>
  /\ tpc = [i \in 1..Len(c.services) |-> "idle"]
  /\ revisions = [i \in 1..Len(c.services) |-> <<>>]
  /\ pending = [i \in 1..Len(c.services) |-> <<>>]
  /\ terr = [i \in 1..Len(c.services) |-> NoErr]
  /\ tcmds = [i \in 1..Len(c.services) |-> <<>>]
  /\ svcRevs = InitialRevs(n)
  /\ revCount = [s \in Names |-> n]
  /\ svcImage = [s \in Names |-> NoImage]
  /\ traffic = [s \in Names |-> IF n = 0 THEN "" ELSE RevName(s, n)]
  /\ listing = <<>>
  /\ tags = <<>>
  /\ cidx = 0
  /\ imgDeleted = <<>>

\* main after parseConfig
Init ==
  \E c \in Configs(1), n \in 0..MaxRevs :
    /\ InitWith(c, n, "build", NoImage)
    /\ EnvWith({"package.json", "pnpm-lock.yaml"}, <<>>, FreeOracle(n))

\* ------------------------------------------------------------------ run
\* run returns err to main
Return(err) == /\ runErr' = err
               /\ pc' = "return"

imageRepo == Repo
imageTagOf(c) == IF c.beta THEN <<imageRepo, ":", <<"dev">>>> ELSE <<imageRepo, "", <<>>>>
\* fullImagePath built from the tag pushed instead of the digest
fullImagePathByTag(repo, dg) == imageTagOf(cfg)

fullImagePath(repo, dg) == <<repo, "@", dg>>

\* RunBuild without the check of the build's exit status
RunBuildUnchecked ==
  /\ pc = "build"
  /\ \E ok \in BOOLEAN :
       /\ cmds' = Append(cmds, Cmd("pnpm run build", NoTarget, NoImage, ok))
       /\ imageTag' = imageTagOf(cfg)
       /\ pc' = "dockerBuild"
       /\ UNCHANGED runErr
  /\ UNCHANGED <<cfg, envVars, pushOutput, digest, image, mainVars, joinVars, taskVars,
                 platformVars, cleanupVars>>

RunBuild ==
  /\ pc = "build"
  /\ \E ok \in BOOLEAN :
       /\ cmds' = Append(cmds, Cmd("pnpm run build", NoTarget, NoImage, ok))
       /\ IF ok
          THEN /\ imageTag' = imageTagOf(cfg)
               /\ pc' = "dockerBuild"
               /\ UNCHANGED runErr
          ELSE /\ Return(Err("build project", <<>>))
               /\ UNCHANGED imageTag
  /\ UNCHANGED <<cfg, envVars, pushOutput, digest, image, mainVars, joinVars, taskVars,
                 platformVars, cleanupVars>>

RunDockerBuild ==
  /\ pc = "dockerBuild"
  /\ \E ok \in BOOLEAN :
       /\ cmds' = Append(cmds, Cmd("docker build", NoTarget, imageTag, ok))
       /\ IF ok
          THEN /\ pc' = "push"
               /\ UNCHANGED runErr
          ELSE Return(Err("docker build", <<>>))
  /\ UNCHANGED <<cfg, envVars, imageTag, pushOutput, digest, image, mainVars, joinVars,
                 taskVars, platformVars, cleanupVars>>

\* docker push, printing one of the transcripts T
RunPushFrom(T) ==
  /\ pc = "push"
  /\ \E ok \in BOOLEAN, out \in T :
       /\ cmds' = Append(cmds, Cmd("docker push", NoTarget, imageTag, ok))
       /\ pushOutput' = out
       /\ IF ok
          THEN /\ pc' = "parseDigest"
               /\ UNCHANGED runErr
          ELSE Return(Err("docker push", <<>>))
  /\ UNCHANGED <<cfg, envVars, imageTag, digest, image, mainVars, joinVars, taskVars,
                 platformVars, cleanupVars>>

RunPush == RunPushFrom(PushTranscripts)

RunParseDigest ==
  /\ pc = "parseDigest"
  /\ LET r == parseDigest(pushOutput)
     IN  IF r.ok
         THEN /\ digest' = r.digest
              /\ image' = fullImagePath(imageRepo, r.digest)
              /\ pc' = "spawn"
              /\ UNCHANGED runErr
         ELSE /\ Return(Err("parse digest", <<>>))
              /\ UNCHANGED <<digest, image>>
  /\ UNCHANGED <<cfg, envVars, imageTag, pushOutput, cmds, mainVars, joinVars, taskVars,
                 platformVars, cleanupVars>>

\* ------------------------------------------------------------------ platform
\* gcloud run revisions list --format=value(metadata.name): one name a line
RECURSIVE RevListOutput(_)
RevListOutput(revs) ==
  IF revs = <<>> THEN <<>> ELSE <<Head(revs), NL>> \o RevListOutput(Tail(revs))

\* gcloud run revisions delete: the revision of that name is gone
DeleteRevision(revs, name) ==
  [s \in Names |-> SelectSeq(revs[s], LAMBDA r : <<r>> # name)]

\* ------------------------------------------------------------------ deployService
listRevisions(output) ==
  LET lines == SplitOn(TrimSpace(output), NL)
      trimmed == [j \in 1..Len(lines) |-> TrimSpace(lines[j])]
  IN  SelectSeq(trimmed, LAMBDA l : l # <<>>)

\* the slice taken one element too far
revisionsToDeleteOffByOne(revs, keep) ==
  IF Len(revs) <= keep THEN <<>> ELSE SubSeq(revs, keep + 2, Len(revs))

\* the slice deployService ranges over: nothing when len(revisions) <= keepRevs,
\* else revisions[keepRevs:]
revisionsToDelete(revs, keep) ==
  IF Len(revs) <= keep THEN <<>> ELSE SubSeq(revs, keep + 1, Len(revs))

\* deployService returns err in task i
TaskReturn(i, err) ==
  /\ terr' = [terr EXCEPT ![i] = err]
  /\ tpc' = [tpc EXCEPT ![i] = "returned"]

\* TaskList storing the list in one variable that all the tasks share
TaskListShared(i) ==
  /\ tpc[i] = "list"
  /\ LET s == cfg.services[i]
     IN  \E ok \in Outcomes("revisions list", <<s>>) :
           /\ tcmds' = [tcmds EXCEPT ![i] = Append(@, Cmd("revisions list", <<s>>, NoImage, ok))]
           /\ IF ok
              THEN /\ revisions' = [j \in DOMAIN revisions |-> listRevisions(RevListOutput(svcRevs[s]))]
                   /\ tpc' = [tpc EXCEPT ![i] = "deploy"]
                   /\ UNCHANGED terr
              ELSE /\ TaskReturn(i, Err("list revisions for", <<s>>))
                   /\ UNCHANGED revisions
  /\ UNCHANGED <<cfg, envVars, pc, runVars, mainVars, joinVars, pending, platformVars, cleanupVars>>

TaskList(i) ==
  /\ tpc[i] = "list"
  /\ LET s == cfg.services[i]
     IN  \E ok \in Outcomes("revisions list", <<s>>) :
           /\ tcmds' = [tcmds EXCEPT ![i] = Append(@, Cmd("revisions list", <<s>>, NoImage, ok))]
           /\ IF ok
              THEN /\ revisions' = [revisions EXCEPT ![i] = listRevisions(RevListOutput(svcRevs[s]))]
                   /\ tpc' = [tpc EXCEPT ![i] = "deploy"]
                   /\ UNCHANGED terr
              ELSE /\ TaskReturn(i, Err("list revisions for", <<s>>))
                   /\ UNCHANGED revisions
  /\ UNCHANGED <<cfg, envVars, pc, runVars, mainVars, joinVars, pending, platformVars, cleanupVars>>

\* TaskDeploy where a failed deploy also stops the sibling tasks that are
\* running (a shared cancellation)
TaskDeployCancelling(i) ==
  /\ tpc[i] = "deploy"
  /\ LET s == cfg.services[i]
     IN  \E ok \in Outcomes("run deploy", <<s>>) :
           /\ tcmds' = [tcmds EXCEPT ![i] = Append(@, Cmd("run deploy", <<s>>, image, ok))]
           /\ IF ok
              THEN /\ svcRevs' = [svcRevs EXCEPT ![s] = <<RevName(s, revCount[s] + 1)>> \o @]
                   /\ revCount' = [revCount EXCEPT ![s] = @ + 1]
                   /\ svcImage' = [svcImage EXCEPT ![s] = image]
                   /\ tpc' = [tpc EXCEPT ![i] = "migrate"]
                   /\ UNCHANGED terr
              ELSE /\ terr' = [terr EXCEPT ![i] = Err("deploy service", <<s>>)]
                   /\ tpc' = [j \in DOMAIN tpc |->
                                IF j = i \/ tpc[j] \in {"list", "deploy", "migrate", "delete"}
                                THEN "returned" ELSE tpc[j]]
                   /\ UNCHANGED <<svcRevs, revCount, svcImage>>
  /\ UNCHANGED <<cfg, envVars, pc, runVars, mainVars, joinVars, revisions, pending, traffic,
                 cleanupVars>>

\* TaskDeploy with the revisions listed again once the deploy is done
TaskDeployRelisting(i) ==
  /\ tpc[i] = "deploy"
  /\ LET s == cfg.services[i]
         after == <<RevName(s, revCount[s] + 1)>> \o svcRevs[s]
     IN  \E ok \in Outcomes("run deploy", <<s>>) :
           /\ tcmds' = [tcmds EXCEPT ![i] = Append(@, Cmd("run deploy", <<s>>, image, ok))]
           /\ IF ok
              THEN /\ svcRevs' = [svcRevs EXCEPT ![s] = after]
                   /\ revCount' = [revCount EXCEPT ![s] = @ + 1]
                   /\ svcImage' = [svcImage EXCEPT ![s] = image]
                   /\ revisions' = [revisions EXCEPT ![i] = listRevisions(RevListOutput(after))]
                   /\ tpc' = [tpc EXCEPT ![i] = "migrate"]
                   /\ UNCHANGED terr
              ELSE /\ TaskReturn(i, Err("deploy service", <<s>>))
                   /\ UNCHANGED <<svcRevs, revCount, svcImage, revisions>>
  /\ UNCHANGED <<cfg, envVars, pc, runVars, mainVars, joinVars, pending, traffic,
                 cleanupVars>>

TaskDeploy(i) ==
  /\ tpc[i] = "deploy"
  /\ LET s == cfg.services[i]
     IN  \E ok \in Outcomes("run deploy", <<s>>) :
           /\ tcmds' = [tcmds EXCEPT ![i] = Append(@, Cmd("run deploy", <<s>>, image, ok))]
           /\ IF ok
              THEN /\ svcRevs' = [svcRevs EXCEPT ![s] = <<RevName(s, revCount[s] + 1)>> \o @]
                   /\ revCount' = [revCount EXCEPT ![s] = @ + 1]
                   /\ svcImage' = [svcImage EXCEPT ![s] = image]
                   /\ tpc' = [tpc EXCEPT ![i] = "migrate"]
                   /\ UNCHANGED terr
              ELSE /\ TaskReturn(i, Err("deploy service", <<s>>))
                   /\ UNCHANGED <<svcRevs, revCount, svcImage>>
  /\ UNCHANGED <<cfg, envVars, pc, runVars, mainVars, joinVars, revisions, pending, traffic,
                 cleanupVars>>

\* TaskMigrate going on to the deletions whether update-traffic failed or not
TaskMigrateUnchecked(i) ==
  /\ tpc[i] = "migrate"
  /\ LET s == cfg.services[i]
         rest == revisionsToDelete(revisions[i], cfg.keepRevs)
     IN  \E ok \in Outcomes("update-traffic --to-latest", <<s>>) :
           /\ tcmds' = [tcmds EXCEPT ![i] = Append(@, Cmd("update-traffic --to-latest", <<s>>, NoImage, ok))]
           /\ traffic' = IF ok THEN [traffic EXCEPT ![s] = IF svcRevs[s] = <<>> THEN "" ELSE Head(svcRevs[s])]
                         ELSE traffic
           /\ pending' = [pending EXCEPT ![i] = rest]
           /\ IF rest = <<>>
              THEN TaskReturn(i, IF ok THEN NoErr ELSE Err("update traffic for", <<s>>))
              ELSE /\ tpc' = [tpc EXCEPT ![i] = "delete"]
                   /\ UNCHANGED terr
  /\ UNCHANGED <<cfg, envVars, pc, runVars, mainVars, joinVars, revisions, svcRevs, revCount,
                 svcImage, cleanupVars>>

TaskMigrate(i) ==
  /\ tpc[i] = "migrate"
  /\ LET s == cfg.services[i]
         rest == revisionsToDelete(revisions[i], cfg.keepRevs)
     IN  \E ok \in Outcomes("update-traffic --to-latest", <<s>>) :
           /\ tcmds' = [tcmds EXCEPT ![i] = Append(@, Cmd("update-traffic --to-latest", <<s>>, NoImage, ok))]
           /\ IF ok
              THEN /\ traffic' = [traffic EXCEPT ![s] = IF svcRevs[s] = <<>> THEN "" ELSE Head(svcRevs[s])]
                   /\ pending' = [pending EXCEPT ![i] = rest]
                   /\ IF rest = <<>>
                      THEN TaskReturn(i, NoErr)
                      ELSE /\ tpc' = [tpc EXCEPT ![i] = "delete"]
                           /\ UNCHANGED terr
              ELSE /\ TaskReturn(i, Err("update traffic for", <<s>>))
                   /\ UNCHANGED <<traffic, pending>>
  /\ UNCHANGED <<cfg, envVars, pc, runVars, mainVars, joinVars, revisions, svcRevs, revCount,
                 svcImage, cleanupVars>>

\* TaskDelete going on to the next revision after a failed delete, the error
\* returned being that of the last failure
TaskDeleteKeepGoing(i) ==
  /\ tpc[i] = "delete"
  /\ LET revision == Head(pending[i])
     IN  \E ok \in Outcomes("revisions delete", revision) :
           /\ tcmds' = [tcmds EXCEPT ![i] = Append(@, Cmd("revisions delete", revision, NoImage, ok))]
           /\ svcRevs' = IF ok THEN DeleteRevision(svcRevs, revision) ELSE svcRevs
           /\ pending' = [pending EXCEPT ![i] = Tail(@)]
           /\ terr' = IF ok THEN terr ELSE [terr EXCEPT ![i] = Err("delete revision", revision)]
           /\ tpc' = IF Tail(pending[i]) = <<>> THEN [tpc EXCEPT ![i] = "returned"] ELSE tpc
  /\ UNCHANGED <<cfg, envVars, pc, runVars, mainVars, joinVars, revisions, revCount, svcImage,
                 traffic, cleanupVars>>

\* one iteration of the loop over revisions[keepRevs:]
TaskDelete(i) ==
  /\ tpc[i] = "delete"
  /\ LET revision == Head(pending[i])
     IN  \E ok \in Outcomes("revisions delete", revision) :
           /\ tcmds' = [tcmds EXCEPT ![i] = Append(@, Cmd("revisions delete", revision, NoImage, ok))]
           /\ IF ok
              THEN /\ svcRevs' = DeleteRevision(svcRevs, revision)
                   /\ pending' = [pending EXCEPT ![i] = Tail(@)]
                   /\ IF Tail(pending[i]) = <<>>
                      THEN TaskReturn(i, NoErr)
                      ELSE UNCHANGED <<tpc, terr>>
              ELSE /\ TaskReturn(i, Err("delete revision", revision))
                   /\ UNCHANGED <<svcRevs, pending>>
  /\ UNCHANGED <<cfg, envVars, pc, runVars, mainVars, joinVars, revisions, revCount, svcImage,
                 traffic, cleanupVars>>

\* ------------------------------------------------------------------ deployServices
\* a channel with room for one error fewer than there are services
ErrsCapOneShort == Len(cfg.services) - 1

\* make(chan error, len(cfg.services))
ErrsCap == Len(cfg.services)

\* one iteration of the loop that starts the goroutines
Spawn ==
  /\ pc = "spawn"
  /\ spawned < Len(cfg.services)
  /\ wg' = wg + 1
  /\ spawned' = spawned + 1
  /\ tpc' = [tpc EXCEPT ![spawned + 1] = "list"]
  /\ pc' = IF spawned + 1 = Len(cfg.services) THEN "wait" ELSE "spawn"
  /\ UNCHANGED <<cfg, envVars, runVars, mainVars, errs, dsErr, revisions, pending, terr, tcmds,
                 platformVars, cleanupVars>>

\* the goroutine after deployService returned: the send when err != nil (it
\* blocks while the channel is full), then the deferred wg.Done()
GoroutineExit(i) ==
  /\ tpc[i] = "returned"
  /\ IF terr[i] # NoErr
     THEN /\ Len(errs) < ErrsCap
          /\ errs' = Append(errs, terr[i])
     ELSE UNCHANGED errs
  /\ wg' = wg - 1
  /\ tpc' = [tpc EXCEPT ![i] = "done"]
  /\ UNCHANGED <<cfg, envVars, pc, runVars, mainVars, spawned, dsErr, revisions, pending, terr,
                 tcmds, platformVars, cleanupVars>>

\* the collecting loop stopping at the first error
joinErrsFirstOnly(ch, buf) == IF ch = <<>> THEN buf ELSE Head(ch)

RECURSIVE joinErrs(_, _)
\* the loop over the closed channel: the messages, newline-separated, in buf
joinErrs(ch, buf) ==
  IF ch = <<>> THEN buf
  ELSE joinErrs(Tail(ch), (IF Len(buf) > 0 THEN buf \o <<NL>> ELSE buf) \o Head(ch))

\* no wait at all: deployServices goes on while goroutines run
WaitSkipped == TRUE

\* wg.Wait() is over
WaitDone == wg = 0

\* wg.Wait(), close(errs), the collecting loop, and the return
Join ==
  /\ pc = "wait"
  /\ WaitDone
  /\ dsErr' = joinErrs(errs, <<>>)
  /\ errs' = <<>>
  /\ pc' = "afterDeploy"
  /\ UNCHANGED <<cfg, envVars, runVars, mainVars, spawned, wg, taskVars, platformVars, cleanupVars>>

\* ------------------------------------------------------------------ run, continued
\* cleanup whatever the run
cleanupAlways(c) == TRUE

\* run only cleans images up when the run is not beta
cleanupWanted(c) == ~c.beta

RunAfterDeploy ==
  /\ pc = "afterDeploy"
  /\ IF dsErr # NoErr
     THEN Return(dsErr)
     ELSE IF cleanupWanted(cfg)
          THEN /\ pc' = "cleanupList"
               /\ UNCHANGED runErr
          ELSE Return(NoErr)
  /\ UNCHANGED <<cfg, envVars, imageTag, pushOutput, digest, image, cmds, mainVars, joinVars,
                 taskVars, platformVars, cleanupVars>>

\* ------------------------------------------------------------------ cleanupOldImages
\* the JSON objects gcloud container images list-tags may print for its j-th
\* record: with the digest of the j-th image (a digest names one image), with
\* an empty digest, without the digest key
TagObjects(j) ==
  {[digest |-> <<"d" \o ToString(j)>>], [digest |-> <<>>], [timestamp |-> <<>>]}

TagListings ==
  UNION {{q \in [1..n -> UNION {TagObjects(j) : j \in 1..n}] :
            \A j \in 1..n : q[j] \in TagObjects(j)} : n \in 0..MaxTags}

\* an output of list-tags that json.Unmarshal rejects
NotJSON == <<[invalid |-> TRUE]>>

\* json.Unmarshal into []struct{Digest string `json:"digest"`}
Unmarshal(objs) ==
  [j \in 1..Len(objs) |->
     [Digest |-> IF "digest" \in DOMAIN objs[j] THEN objs[j].digest ELSE <<>>]]

\* cleanupOldImages' repo, from cfg and the image name run passes
cleanupRepo == Repo

CleanupList ==
  /\ pc = "cleanupList"
  /\ \/ /\ cmds' = Append(cmds, Cmd("images list-tags", NoTarget, <<cleanupRepo, "", <<>>>>, FALSE))
        /\ Return(Err("list image tags", <<>>))
        /\ UNCHANGED <<listing, tags, cidx>>
     \/ /\ cmds' = Append(cmds, Cmd("images list-tags", NoTarget, <<cleanupRepo, "", <<>>>>, TRUE))
        /\ \/ /\ Return(Err("parse image tags json", <<>>))
              /\ listing' = NotJSON
              /\ UNCHANGED <<tags, cidx>>
           \/ \E objs \in TagListings :
                /\ listing' = objs
                /\ tags' = Unmarshal(objs)
                /\ IF Len(Unmarshal(objs)) <= cfg.keepImgs
                   THEN /\ Return(NoErr)
                        /\ UNCHANGED cidx
                   ELSE /\ cidx' = cfg.keepImgs + 1
                        /\ pc' = "cleanupLoop"
                        /\ UNCHANGED runErr
  /\ UNCHANGED <<cfg, envVars, imageTag, pushOutput, digest, image, mainVars, joinVars, taskVars,
                 platformVars, imgDeleted>>

\* after the iteration on record cidx: the next one, or return nil
CleanupAdvance ==
  IF cidx = Len(tags)
  THEN /\ Return(NoErr)
       /\ UNCHANGED cidx
  ELSE /\ cidx' = cidx + 1
       /\ UNCHANGED <<pc, runErr>>

\* no record passed over
skipNothing(tag) == FALSE

\* the loop's test for a record to pass over
skipRecord(tag) == tag.Digest = <<>>

\* CleanupStep going on to the next record after a failed delete
CleanupStepKeepGoing ==
  /\ pc = "cleanupLoop"
  /\ LET tag == tags[cidx]
         imageWithDigest == <<cleanupRepo, "@", tag.Digest>>
     IN  IF skipRecord(tag)
         THEN /\ CleanupAdvance
              /\ UNCHANGED <<cmds, imgDeleted>>
         ELSE \E ok \in BOOLEAN :
                /\ cmds' = Append(cmds, Cmd("images delete", NoTarget, imageWithDigest, ok))
                /\ imgDeleted' = IF ok THEN Append(imgDeleted, imageWithDigest) ELSE imgDeleted
                /\ CleanupAdvance
  /\ UNCHANGED <<cfg, envVars, imageTag, pushOutput, digest, image, mainVars, joinVars, taskVars,
                 platformVars, listing, tags>>

\* one iteration of the loop over tags[keepImgs:]
CleanupStep ==
  /\ pc = "cleanupLoop"
  /\ LET tag == tags[cidx]
         imageWithDigest == <<cleanupRepo, "@", tag.Digest>>
     IN  IF skipRecord(tag)
         THEN /\ CleanupAdvance
              /\ UNCHANGED <<cmds, imgDeleted>>
         ELSE \E ok \in BOOLEAN :
                /\ cmds' = Append(cmds, Cmd("images delete", NoTarget, imageWithDigest, ok))
                /\ IF ok
                   THEN /\ imgDeleted' = Append(imgDeleted, imageWithDigest)
                        /\ CleanupAdvance
                   ELSE /\ Return(Err("delete image", <<>>))
                        /\ UNCHANGED <<cidx, imgDeleted>>
  /\ UNCHANGED <<cfg, envVars, imageTag, pushOutput, digest, image, mainVars, joinVars, taskVars,
                 platformVars, listing, tags>>

\* ------------------------------------------------------------------ main
\* main printing the Done line before it looks at run's error
MainExitDoneFirst ==
  /\ pc = "return"
  /\ donePrinted' = TRUE
  /\ exitCode' = IF runErr # NoErr THEN 1 ELSE 0
  /\ pc' = "exited"
  /\ UNCHANGED <<cfg, envVars, runVars, joinVars, taskVars, platformVars, cleanupVars>>

MainExit ==
  /\ pc = "return"
  /\ IF runErr # NoErr
     THEN /\ exitCode' = 1
          /\ UNCHANGED donePrinted
     ELSE /\ donePrinted' = TRUE
          /\ exitCode' = 0
  /\ pc' = "exited"
  /\ UNCHANGED <<cfg, envVars, runVars, joinVars, taskVars, platformVars, cleanupVars>>

Next ==
  \/ RunBuild
  \/ RunDockerBuild
  \/ RunPush
  \/ RunParseDigest
  \/ Spawn
  \/ \E i \in Tasks : TaskList(i)
  \/ \E i \in Tasks : TaskDeploy(i)
  \/ \E i \in Tasks : TaskMigrate(i)
  \/ \E i \in Tasks : TaskDelete(i)
  \/ \E i \in Tasks : GoroutineExit(i)
  \/ Join
  \/ RunAfterDeploy
  \/ CleanupList
  \/ CleanupStep
  \/ MainExit

Spec == Init /\ [][Next]_vars

\* ------------------------------------------------------------------ parseDigest alone
\* every text of at most MaxLen symbols over the marker, white space, newline
\* and two other characters
Transcripts == UNION {[1..n -> {Marker, SP, NL, "a", "b"}] : n \in 0..MaxLen}

RunPushAny == RunPushFrom(Transcripts)

\* one release run whose docker push may print any transcript, up to the
\* digest extraction
InitDigest ==
  /\ InitWith([beta |-> FALSE, services |-> <<"A">>, keepImgs |-> 1, keepRevs |-> 1],
              0, "build", NoImage)
  /\ EnvWith({"package.json", "pnpm-lock.yaml"}, <<>>, FreeOracle(0))

NextDigest ==
  \/ RunBuild
  \/ RunDockerBuild
  \/ RunPushAny
  \/ RunParseDigest

SpecDigest == InitDigest /\ [][NextDigest]_vars

\* ------------------------------------------------------------------ deployServices alone
\* deployServices called with any config, keepRevs = 0 included, and an image
\* reference
InitDeploy ==
  \E c \in Configs(0), n \in 0..MaxRevs :
    /\ InitWith(c, n, "spawn", fullImagePath(imageRepo, <<"h">>))
    /\ EnvWith({"package.json", "pnpm-lock.yaml"}, <<>>, FreeOracle(n))

NextDeploy ==
  \/ Spawn
  \/ \E i \in Tasks : TaskList(i)
  \/ \E i \in Tasks : TaskDeploy(i)
  \/ \E i \in Tasks : TaskMigrate(i)
  \/ \E i \in Tasks : TaskDelete(i)
  \/ \E i \in Tasks : GoroutineExit(i)
  \/ Join

SpecDeploy == InitDeploy /\ [][NextDeploy]_vars

\* ------------------------------------------------------------------ the build selector
\* a text is the sequence of its characters here
langPNPM == <<"p", "n", "p", "m">>
langNPM == <<"n", "p", "m">>
langYarn == <<"y", "a", "r", "n">>
langGo == <<"g", "o">>
langRust == <<"r", "u", "s", "t">>

Lowers == <<"a", "b", "c", "d", "e", "f", "g", "h", "i", "j", "k", "l", "m",
            "n", "o", "p", "q", "r", "s", "t", "u", "v", "w", "x", "y", "z">>
Uppers == <<"A", "B", "C", "D", "E", "F", "G", "H", "I", "J", "K", "L", "M",
            "N", "O", "P", "Q", "R", "S", "T", "U", "V", "W", "X", "Y", "Z">>

\* strings.ToLower
ToLower(s) ==
  [j \in 1..Len(s) |->
     IF \E k \in 1..Len(Uppers) : Uppers[k] = s[j]
     THEN Lowers[CHOOSE k \in 1..Len(Uppers) : Uppers[k] = s[j]]
     ELSE s[j]]

\* the files detectLanguage and its callers may find in the working directory
MarkerFiles ==
  {"pnpm-lock.yaml", "yarn.lock", "package-lock.json", "go.mod", "Cargo.toml",
   "package.json"}

fileExists(w, file) == file \in w

\* the lock file of npm looked for before that of yarn
orderedIndicatorsNpmFirst ==
  << [lang |-> langPNPM, file |-> "pnpm-lock.yaml"],
     [lang |-> langNPM, file |-> "package-lock.json"],
     [lang |-> langYarn, file |-> "yarn.lock"],
     [lang |-> langGo, file |-> "go.mod"],
     [lang |-> langRust, file |-> "Cargo.toml"] >>

orderedIndicators ==
  << [lang |-> langPNPM, file |-> "pnpm-lock.yaml"],
     [lang |-> langYarn, file |-> "yarn.lock"],
     [lang |-> langNPM, file |-> "package-lock.json"],
     [lang |-> langGo, file |-> "go.mod"],
     [lang |-> langRust, file |-> "Cargo.toml"] >>

\* what determineLanguage and detectLanguage return: a language and an error
Lang(tool, err) == [tool |-> tool, err |-> err]

RECURSIVE detectFrom(_, _)
\* detectLanguage's loop from the j-th indicator on, and what follows it
detectFrom(w, j) ==
  IF j > Len(orderedIndicators)
  THEN IF fileExists(w, "package.json")
       THEN Lang(langPNPM, NoErr)
       ELSE Lang(langPNPM, NoErr)
  ELSE IF fileExists(w, orderedIndicators[j].file)
       THEN Lang(orderedIndicators[j].lang, NoErr)
       ELSE detectFrom(w, j + 1)

detectLanguage(w) == detectFrom(w, 1)

\* the choice trimmed but its case kept
normalizedCaseKept(req) == TrimSpace(req)

\* requested = strings.TrimSpace(strings.ToLower(requested))
normalized(req) == TrimSpace(ToLower(req))

determineLanguage(w, req) ==
  LET r == normalized(req)
  IN  IF r = <<>> THEN detectLanguage(w)
      ELSE IF r \in {langNPM, <<"n", "o", "d", "e">>, <<"t", "s">>,
                     <<"t", "y", "p", "e", "s", "c", "r", "i", "p", "t">>,
                     <<"j", "a", "v", "a", "s", "c", "r", "i", "p", "t">>,
                     <<"n", "o", "d", "e", "j", "s">>}
           THEN Lang(langNPM, NoErr)
      ELSE IF r = langPNPM THEN Lang(langPNPM, NoErr)
      ELSE IF r = langYarn THEN Lang(langYarn, NoErr)
      ELSE IF r \in {langGo, <<"g", "o", "l", "a", "n", "g">>} THEN Lang(langGo, NoErr)
      ELSE IF r \in {langRust, <<"c", "a", "r", "g", "o">>} THEN Lang(langRust, NoErr)
      ELSE Lang(<<>>, Err("unsupported --lang value", r))

\* the command buildProject runs for a language, none for an unsupported one
buildCommand(l) ==
  IF l = langPNPM THEN "pnpm run build"
  ELSE IF l = langNPM THEN "npm run build"
  ELSE IF l = langYarn THEN "yarn build"
  ELSE IF l = langGo THEN "go build ./..."
  ELSE IF l = langRust THEN "cargo build --release"
  ELSE ""

\* a call of determineLanguage on the working directory and the choice
DetermineLanguage ==
  /\ ~lang.done
  /\ LET r == determineLanguage(workdir, requested)
     IN  lang' = [done |-> TRUE, tool |-> r.tool, err |-> r.err]
  /\ UNCHANGED <<cfg, workdir, requested, oracle, flags, host, pc, runVars, mainVars,
                 joinVars, taskVars, platformVars, cleanupVars>>


\* ------------------------------------------------------------------ claims
Last(q) == q[Len(q)]
Ops(q) == {q[j].op : j \in 1..Len(q)}
EarlyOps == {"pnpm run build", "docker build", "docker push"}
CleanupOps == {"images list-tags", "images delete"}
Succeeded(q, op) == \E j \in 1..Len(q) : q[j].op = op /\ q[j].ok
FailedAt(q, op) == \E j \in 1..Len(q) : q[j].op = op /\ ~q[j].ok
AllOk(q) == \A j \in 1..Len(q) : q[j].ok

\* The digest a transcript t announces, read off t's positions: a site is a
\* marker that is the first of its line and is followed, before the next
\* marker and the end of the line, by a symbol that is not white space.
FirstOnLine(t, p) ==
  \A r \in 1..(p - 1) : t[r] = Marker => \E m \in (r + 1)..(p - 1) : t[m] = NL
TokenStarts(t, p) ==
  {q \in (p + 1)..Len(t) :
     /\ t[q] \notin {SP, NL, Marker}
     /\ \A r \in (p + 1)..(q - 1) : t[r] = SP}
Sites(t) ==
  {p \in 1..Len(t) : t[p] = Marker /\ FirstOnLine(t, p) /\ TokenStarts(t, p) # {}}
Min(S) == CHOOSE x \in S : \A y \in S : x <= y
Max(S) == CHOOSE x \in S : \A y \in S : y <= x
\* the run of symbols from q up to the next symbol of Stop, or t's end
RunFrom(t, q, Stop) ==
  SubSeq(t, q, Max({e \in q..Len(t) : \A r \in q..e : t[r] \notin Stop}))
SiteDigest(t) ==
  RunFrom(t, Min(TokenStarts(t, Min(Sites(t)))), {SP, NL, Marker})

\* the state of the platform and the registry with nothing deployed, migrated
\* or deleted
Untouched ==
  /\ \A s \in Names : /\ svcImage[s] = NoImage
                      /\ svcRevs[s] = InitialRevs(revCount[s])[s]
                      /\ traffic[s] = IF revCount[s] = 0 THEN "" ELSE Head(svcRevs[s])
  /\ imgDeleted = <<>>

\* a stage before the fan-out has failed: a command exited non-zero, or the
\* transcript of a successful push announced no digest
EarlyFailure ==
  \/ \E op \in EarlyOps : FailedAt(cmds, op)
  \/ /\ Succeeded(cmds, "docker push")
     /\ pc # "parseDigest"
     /\ Sites(pushOutput) = {}

\* C1: when build, docker build, docker push or the digest extraction fails,
\* run returns an error (main exits 1 without the Done line) and nothing after
\* the failed stage has run: no goroutine started, no task command, no cleanup
\* command, platform and registry untouched.
C1_EarlyFailureAborts ==
  EarlyFailure =>
    /\ pc \in {"return", "exited"}
    /\ runErr # NoErr
    /\ pc = "exited" => (exitCode = 1 /\ ~donePrinted)
    /\ Ops(cmds) \subseteq EarlyOps
    /\ \A j \in 1..(Len(cmds) - 1) : cmds[j].ok
    /\ spawned = 0
    /\ \A i \in Tasks : tpc[i] = "idle" /\ tcmds[i] = <<>>
    /\ listing = <<>>
    /\ Untouched

C1_Witness ==
  /\ pc = "exited"
  /\ Succeeded(cmds, "docker push")
  /\ ~Contains(pushOutput, Marker)
  /\ exitCode = 1
  /\ spawned = 0

\* C2: every deploy command of every task names the image Repo@digest, digest
\* being the one this run's push transcript announces; the tag is never used.
C2_DeployByDigest ==
  \A i \in Tasks : \A j \in 1..Len(tcmds[i]) :
    tcmds[i][j].op = "run deploy" =>
      /\ Sites(pushOutput) # {}
      /\ tcmds[i][j].image = <<Repo, "@", SiteDigest(pushOutput)>>
      /\ tcmds[i][j].image # imageTag
      /\ digest = SiteDigest(pushOutput)

C2_Witness ==
  /\ cfg.beta
  /\ Len(cfg.services) = 3
  /\ \A i \in Tasks : Succeeded(tcmds[i], "run deploy")

\* the entries of an aggregated error: its lines
Entries(e) == IF e = NoErr THEN <<>> ELSE SplitOn(e, NL)
Count(q, x) == Cardinality({j \in 1..Len(q) : q[j] = x})
TaskFailed(i) == tcmds[i] # <<>> /\ ~Last(tcmds[i]).ok
FailedTasks == {i \in Tasks : TaskFailed(i)}

\* C3: once deployServices has returned, its error holds one line for each
\* task that failed (that task's own error) and nothing else, whatever the
\* interleaving; it is nil exactly when no task failed.
C3_OneEntryPerFailedTask ==
  pc = "afterDeploy" =>
    /\ Len(Entries(dsErr)) = Cardinality(FailedTasks)
    /\ \A i \in Tasks : TaskFailed(i) <=> terr[i] # NoErr
    /\ \A i \in FailedTasks :
         Count(Entries(dsErr), terr[i]) = Cardinality({k \in FailedTasks : terr[k] = terr[i]})
    /\ dsErr = NoErr <=> FailedTasks = {}

C3_Witness ==
  /\ pc = "afterDeploy"
  /\ Len(cfg.services) = 3
  /\ Cardinality(FailedTasks) = 2
  /\ Len(Entries(dsErr)) = 2
  /\ Entries(dsErr)[1] = terr[3]


AfterJoin == pc \in {"afterDeploy", "cleanupList", "cleanupLoop", "return", "exited"}
FanOutDone == spawned = Len(cfg.services)

\* C4: deployServices has not returned, no cleanup command has run and run has
\* no result while any task is not finished, failed tasks or not.
C4_JoinBarrier ==
  /\ (AfterJoin /\ spawned > 0) => (FanOutDone /\ \A i \in Tasks : tpc[i] = "done")
  /\ (\E i \in Tasks : tpc[i] \notin {"idle", "done"}) =>
       (pc \in {"spawn", "wait"} /\ Ops(cmds) \cap CleanupOps = {} /\ exitCode = -1)

C4_Witness ==
  /\ pc = "afterDeploy"
  /\ Len(cfg.services) = 3
  /\ FailedAt(tcmds[1], "revisions list")
  /\ Succeeded(tcmds[2], "update-traffic --to-latest")
  /\ Succeeded(tcmds[3], "update-traffic --to-latest")
  /\ \A i \in Tasks : tpc[i] = "done"

Distinct(q) == \A i, j \in 1..Len(q) : q[i] = q[j] => i = j
\* service s runs the image of this run on its newest revision, which gets
\* the traffic
Deployed(s) ==
  /\ svcImage[s] = image
  /\ svcRevs[s] # <<>>
  /\ Head(svcRevs[s]) = RevName(s, revCount[s])
  /\ traffic[s] = Head(svcRevs[s])

\* C5: when run has returned after a fan-out over distinct services, every
\* task none of whose commands failed has deployed and migrated its service,
\* whatever happened to its siblings, and run's error has one line per failed
\* task; with services A, B, C, A's deploy failing and B's and C's commands
\* succeeding, the error is A's deploy failure alone and main exits 1.
C5_SiblingsUnaffected ==
  (pc \in {"return", "exited"} /\ FanOutDone /\ Distinct(cfg.services)) =>
    /\ \A i \in Tasks :
         AllOk(tcmds[i]) =>
           /\ Succeeded(tcmds[i], "run deploy")
           /\ Succeeded(tcmds[i], "update-traffic --to-latest")
           /\ Deployed(cfg.services[i])
    /\ FailedTasks # {} =>
         /\ Len(Entries(runErr)) = Cardinality(FailedTasks)
         /\ pc = "exited" => (exitCode = 1 /\ ~donePrinted)
    /\ ( /\ cfg.services = <<"A", "B", "C">>
         /\ FailedAt(tcmds[1], "run deploy")
         /\ AllOk(tcmds[2])
         /\ AllOk(tcmds[3]) ) =>
         /\ Entries(runErr) = <<Err("deploy service", <<"A">>)>>
         /\ svcImage["A"] = NoImage

C5_Witness ==
  /\ pc = "exited"
  /\ cfg.services = <<"A", "B", "C">>
  /\ FailedAt(tcmds[1], "run deploy")
  /\ AllOk(tcmds[2])
  /\ AllOk(tcmds[3])
  /\ Deployed("B")
  /\ Deployed("C")
  /\ exitCode = 1

CleanupInvoked ==
  \/ pc \in {"cleanupList", "cleanupLoop"}
  \/ Ops(cmds) \cap CleanupOps # {}
  \/ listing # <<>>
  \/ imgDeleted # <<>>

\* C6: image cleanup is entered, and a tag is listed or deleted, only in a run
\* that is not beta and whose tasks all finished without a failure.
C6_CleanupOnlyNonBetaAfterSuccess ==
  CleanupInvoked =>
    /\ ~cfg.beta
    /\ FanOutDone
    /\ \A i \in Tasks : tpc[i] = "done" /\ tcmds[i] # <<>> /\ AllOk(tcmds[i])
    /\ dsErr = NoErr

C6_Witness ==
  /\ Succeeded(cmds, "images delete")
  /\ ~cfg.beta
  /\ Len(cfg.services) = 3


Drop(q, m) == [j \in 1..(Len(q) - m) |-> q[j + m]]
\* what the commands op of log q name, in order
Targets(q, op) ==
  LET sel == SelectSeq(q, LAMBDA c : c.op = op)
  IN  [j \in 1..Len(sel) |-> sel[j].target]
Images(q, op, oks) ==
  LET sel == SelectSeq(q, LAMBDA c : c.op = op /\ c.ok \in oks)
  IN  [j \in 1..Len(sel) |-> sel[j].image]
TaskSucceeded(i) == tpc[i] \in {"returned", "done"} /\ AllOk(tcmds[i])
\* the names of the n revisions service s had before the run, newest first
NamesBefore(s, n) == [j \in 1..n |-> <<RevName(s, n + 1 - j)>>]

\* C7: a task that returned without a failed command, having listed L with
\* threshold k = keepRevs >= 0, has issued delete commands for exactly L minus
\* its first min(k, len(L)) names, in L's order (max(0, len(L) - k) of them);
\* with distinct services L is the platform's list before the deploy, in the
\* platform's order.
C7_RevisionPruning ==
  \A i \in Tasks :
    TaskSucceeded(i) =>
      LET L == revisions[i]
          k == cfg.keepRevs
      IN  /\ Targets(tcmds[i], "revisions delete") = Drop(L, Min({k, Len(L)}))
          /\ Len(Targets(tcmds[i], "revisions delete")) = Max({0, Len(L) - k})
          /\ Distinct(cfg.services) =>
               L = NamesBefore(cfg.services[i], revCount[cfg.services[i]] - 1)

C7_Witness ==
  /\ cfg.keepRevs = 2
  /\ Len(cfg.services) = 3
  /\ TaskSucceeded(1)
  /\ revisions[1] = <<<<"A-4">>, <<"A-3">>, <<"A-2">>, <<"A-1">>>>
  /\ Targets(tcmds[1], "revisions delete") = <<<<"A-2">>, <<"A-1">>>>

HasDigest(o) == "digest" \in DOMAIN o /\ o.digest # <<>>
\* the references of the records of the listing after the first keepImgs that
\* carry a digest, in listing order
ExpectedImageDeletes ==
  LET sel == SelectSeq(Drop(listing, Min({cfg.keepImgs, Len(listing)})), HasDigest)
  IN  [j \in 1..Len(sel) |-> <<Repo, "@", sel[j].digest>>]
IsPrefix(a, b) == Len(a) <= Len(b) /\ \A j \in 1..Len(a) : a[j] = b[j]
ParseFailed == runErr = Err("parse image tags json", <<>>)

\* C8: the image deletes cleanupOldImages issues are, in order, those of the
\* records after the first keepImgs whose digest is not empty; a pass none of
\* whose commands failed returns nil having issued all of them, records with
\* an empty or missing digest passed over.
C8_ImageCleanupSelection ==
  /\ IsPrefix(Images(cmds, "images delete", BOOLEAN), ExpectedImageDeletes)
  /\ (pc \in {"return", "exited"} /\ Succeeded(cmds, "images list-tags")
        /\ AllOk(cmds) /\ ~ParseFailed) =>
       /\ runErr = NoErr
       /\ Images(cmds, "images delete", BOOLEAN) = ExpectedImageDeletes
       /\ imgDeleted = ExpectedImageDeletes

C8_Witness ==
  /\ pc = "exited"
  /\ cfg.keepImgs = 2
  /\ listing = <<[digest |-> <<"d1">>], [digest |-> <<"d2">>], [digest |-> <<"d3">>]>>
  /\ imgDeleted = <<<<Repo, "@", <<"d3">>>>>>

\* C9: after an image delete has failed, it is the last command run issued,
\* run has returned an error (main exits 1), every configured service still
\* runs this run's image on its newest revision with the traffic on it, and
\* the images deleted before the failure are still deleted.
C9_CleanupFailureStopsPass ==
  FailedAt(cmds, "images delete") =>
    /\ Last(cmds).op = "images delete" /\ ~Last(cmds).ok
    /\ \A j \in 1..(Len(cmds) - 1) : cmds[j].ok
    /\ pc \in {"return", "exited"}
    /\ runErr # NoErr
    /\ pc = "exited" => (exitCode = 1 /\ ~donePrinted)
    /\ \A i \in Tasks : Deployed(cfg.services[i])
    /\ imgDeleted = Images(cmds, "images delete", {TRUE})

C9_Witness ==
  /\ pc = "exited"
  /\ FailedAt(cmds, "images delete")
  /\ Len(imgDeleted) = 1
  /\ Len(listing) = 3
  /\ exitCode = 1
  /\ \A i \in Tasks : Deployed(cfg.services[i])

Extracted == Succeeded(cmds, "docker push") /\ pc \notin {"push", "parseDigest"}
\* the first marker of the transcript: that of the first line containing one
FirstMarker(t) == Min({r \in 1..Len(t) : t[r] = Marker})

MaxPad == 2
\* what may be appended to a transcript: blank lines and trailing white space
\* (and nothing at all: the extraction done again)
Paddings == UNION {[1..n -> {SP, NL}] : n \in 0..MaxPad}

\* C11: the extraction done again on the transcript the run extracted from, or
\* on that transcript with blank lines or trailing white space appended,
\* gives what the run got: the same digest, and a failure exactly when the
\* run's extraction failed.
C11_PaddingInvariant ==
  Extracted =>
    \A w \in Paddings :
      parseDigest(pushOutput \o w) = [ok |-> pc = "spawn", digest |-> digest]

C11_Witness ==
  /\ pc = "spawn"
  /\ pushOutput = <<"b", Marker, SP, "a">>
  /\ digest = <<"a">>
  /\ parseDigest(pushOutput \o <<SP, NL>>) = [ok |-> TRUE, digest |-> <<"a">>]

\* ------------------------------------------------------------------ the build selector alone
ToUpper(s) ==
  [j \in 1..Len(s) |->
     IF \E k \in 1..Len(Lowers) : Lowers[k] = s[j]
     THEN Uppers[CHOOSE k \in 1..Len(Lowers) : Lowers[k] = s[j]]
     ELSE s[j]]
Capitalized(s) == IF s = <<>> THEN s ELSE ToUpper(<<Head(s)>>) \o Tail(s)

\* the legacy names of the Node build
NodeAliases ==
  { <<"n", "o", "d", "e">>, <<"n", "o", "d", "e", "j", "s">>, <<"t", "s">>,
    <<"t", "y", "p", "e", "s", "c", "r", "i", "p", "t">>,
    <<"j", "a", "v", "a", "s", "c", "r", "i", "p", "t">> }
\* the choices in lower case: the five tools, the aliases, two names of no
\* tool (one with a space inside), and no choice
Words ==
  {langPNPM, langNPM, langYarn, langGo, langRust} \cup NodeAliases
    \cup { <<"g", "o", "l", "a", "n", "g">>, <<"c", "a", "r", "g", "o">>,
           <<"j", "a", "v", "a">>, <<"n", "o", SP, "d", "e">>, <<>> }
\* a word as it may be typed: in lower case, in upper case or capitalized,
\* with white space before or after it
Variants(b) ==
  { pre \o c \o post : c \in {b, ToUpper(b), Capitalized(b)},
                       pre \in {<<>>, <<SP>>}, post \in {<<>>, <<SP>>, <<SP, NL>>} }

\* determineLanguage called on any working directory with any choice
InitLang ==
  \E w \in SUBSET MarkerFiles, b \in Words :
    \E r \in Variants(b) :
      /\ InitWith([beta |-> FALSE, services |-> <<"A">>, keepImgs |-> 1, keepRevs |-> 1],
                  0, "build", NoImage)
      /\ EnvWith(w, r, FreeOracle(0))

NextLang == DetermineLanguage

SpecLang == InitLang /\ [][NextLang]_vars

\* ------------------------------------------------------------------ C12
\* the first of the markers present, in the documented order; none when
\* none is present
FirstMarkerFile(w) ==
  IF "pnpm-lock.yaml" \in w THEN "pnpm-lock.yaml"
  ELSE IF "yarn.lock" \in w THEN "yarn.lock"
  ELSE IF "package-lock.json" \in w THEN "package-lock.json"
  ELSE IF "go.mod" \in w THEN "go.mod"
  ELSE IF "Cargo.toml" \in w THEN "Cargo.toml"
  ELSE ""
ToolOfMarker(file) ==
  CASE file = "pnpm-lock.yaml" -> langPNPM
    [] file = "yarn.lock" -> langYarn
    [] file = "package-lock.json" -> langNPM
    [] file = "go.mod" -> langGo
    [] file = "Cargo.toml" -> langRust
    [] OTHER -> langPNPM
NoChoice == requested \in Variants(<<>>)

\* C12: with no explicit choice the tool resolved is that of the first marker
\* present in the order pnpm-lock.yaml, yarn.lock, package-lock.json, go.mod,
\* Cargo.toml, whatever other markers or package.json are present too; with
\* no marker it is pnpm, with or without package.json; and no error is
\* returned.
C12_DetectionOrder ==
  (lang.done /\ NoChoice) =>
    /\ lang.err = NoErr
    /\ lang.tool = ToolOfMarker(FirstMarkerFile(workdir))
    /\ FirstMarkerFile(workdir) = "" => lang.tool = langPNPM

C12_Witness ==
  /\ lang.done
  /\ requested = <<>>
  /\ workdir = {"yarn.lock", "package-lock.json", "go.mod", "package.json"}
  /\ lang.tool = langYarn

\* ------------------------------------------------------------------ C13
Resolved(r) == [done |-> TRUE, tool |-> r.tool, err |-> r.err]

C14_NodeMapsToPnpm ==
  (lang.done /\ requested \in Variants(<<"n", "o", "d", "e">>)) =>
    /\ lang.tool = langPNPM
    /\ lang.tool = detectLanguage({}).tool

\* ------------------------------------------------------------------ run's first stages in any working directory
\* a run started with no --lang (parseConfig defines no such flag) in a
\* working directory holding any of the marker files, up to the push
InitBuild ==
  \E w \in SUBSET MarkerFiles, b \in BOOLEAN :
    /\ InitWith([beta |-> b, services |-> <<"A">>, keepImgs |-> 1, keepRevs |-> 1],
                0, "build", NoImage)
    /\ EnvWith(w, <<>>, FreeOracle(0))

NextBuild ==
  \/ RunBuild
  \/ RunDockerBuild
  \/ RunPush

SpecBuild == InitBuild /\ [][NextBuild]_vars

\* ------------------------------------------------------------------ C15
\* C15: the first command run executes is the build command of the tool that
\* the working directory and the choice resolve to.
C15_BuildUsesResolvedTool ==
  (cmds # <<>> /\ determineLanguage(workdir, requested).err = NoErr) =>
    cmds[1].op = buildCommand(determineLanguage(workdir, requested).tool)

\* ------------------------------------------------------------------ C16
\* the four early stages succeeded
EarlyStagesSucceeded ==
  /\ Succeeded(cmds, "pnpm run build")
  /\ Succeeded(cmds, "docker build")
  /\ Succeeded(cmds, "docker push")
  /\ Sites(pushOutput) # {}
\* the image cleanup ran and succeeded: the listing was obtained and parsed,
\* and every delete it called for was issued and succeeded
CleanupSucceeded ==
  /\ Succeeded(cmds, "images list-tags")
  /\ listing # NotJSON
  /\ ~FailedAt(cmds, "images delete")
  /\ Images(cmds, "images delete", {TRUE}) = ExpectedImageDeletes
RunSucceeded ==
  /\ EarlyStagesSucceeded
  /\ FanOutDone
  /\ \A i \in Tasks : TaskSucceeded(i)
  /\ ~cfg.beta => CleanupSucceeded

\* C16: the Done line is printed only at an exit with status zero; the process
\* exits zero with Done printed exactly when build, containerize, publish and
\* digest extraction succeeded, every service's task succeeded and, the run
\* not being beta, the image cleanup succeeded; it exits with status 1 and
\* Done not printed otherwise.
C16_DoneIffAllSucceeded ==
  /\ donePrinted => (pc = "exited" /\ exitCode = 0)
  /\ pc = "exited" =>
       IF RunSucceeded
       THEN exitCode = 0 /\ donePrinted
       ELSE exitCode = 1 /\ ~donePrinted

\* a release run that exits with Done after a cleanup that deleted an image
C16_Witness ==
  /\ pc = "exited"
  /\ donePrinted
  /\ exitCode = 0
  /\ ~cfg.beta
  /\ Len(cfg.services) = 2
  /\ imgDeleted # <<>>

\* ------------------------------------------------------------------ C17
\* the step a task's j-th command belongs to
StepOp(j) ==
  CASE j = 1 -> "revisions list"
    [] j = 2 -> "run deploy"
    [] j = 3 -> "update-traffic --to-latest"
    [] OTHER -> "revisions delete"

\* C17: the commands of a task are, in order, the listing, the deploy, the
\* traffic migration and then the deletions, each issued only after the one
\* before it succeeded, the first three naming the task's service; so a failed
\* listing is followed by no deploy and a failed deploy by no migration. And a
\* service has lost a revision only if a task of that service has deployed
\* and migrated successfully in this run.
C17_StepsOrdered ==
  /\ \A i \in Tasks :
       /\ \A j \in 1..Len(tcmds[i]) :
            /\ tcmds[i][j].op = StepOp(j)
            /\ j > 1 => tcmds[i][j - 1].ok
            /\ j <= 3 => tcmds[i][j].target = <<cfg.services[i]>>
       /\ FailedAt(tcmds[i], "revisions list") => Len(tcmds[i]) = 1
       /\ FailedAt(tcmds[i], "run deploy") => Len(tcmds[i]) = 2
  /\ \A s \in Names :
       Len(svcRevs[s]) < revCount[s] =>
         \E i \in Tasks :
           /\ cfg.services[i] = s
           /\ Succeeded(tcmds[i], "run deploy")
           /\ Succeeded(tcmds[i], "update-traffic --to-latest")
           /\ Succeeded(tcmds[i], "revisions delete")

\* one task went through the four steps and deleted two revisions, another
\* stopped at its failed deploy
C17_Witness ==
  /\ Len(cfg.services) >= 2
  /\ Len(tcmds[1]) = 5 /\ AllOk(tcmds[1])
  /\ Len(tcmds[2]) = 2 /\ FailedAt(tcmds[2], "run deploy")
  /\ tpc[2] = "done"

\* ------------------------------------------------------------------ C18
Range(q) == {q[j] : j \in 1..Len(q)}
\* task j went through all its steps: the three commands, then a delete for
\* every revision of its list after the first keepRevs
CompleteTask(j) ==
  /\ Len(tcmds[j]) >= 3
  /\ AllOk(tcmds[j])
  /\ Targets(tcmds[j], "revisions delete")
       = Drop(revisions[j], Min({cfg.keepRevs, Len(revisions[j])}))

\* C18: a task one of whose revision deletes failed issued no command after
\* it and had no other failure; it has returned one error, which names that
\* revision and is among the errors deployServices returns; its service still
\* runs this run's image, with the traffic on a live revision created in this
\* run (the newest one when the service is configured once); and each sibling
\* that has returned either failed a command of its own or went through all
\* its steps.
C18_DeleteFailureLocal ==
  \A i \in Tasks :
    FailedAt(tcmds[i], "revisions delete") =>
      LET s == cfg.services[i]
          failed == Last(tcmds[i])
      IN  /\ failed.op = "revisions delete" /\ ~failed.ok
          /\ \A j \in 1..(Len(tcmds[i]) - 1) : tcmds[i][j].ok
          /\ tpc[i] \in {"returned", "done"}
          /\ terr[i] = Err("delete revision", failed.target)
          /\ pc = "afterDeploy" => Count(Entries(dsErr), terr[i]) >= 1
          /\ (pc = "afterDeploy" /\ Distinct(cfg.services)) =>
               Count(Entries(dsErr), terr[i]) = 1
          /\ svcImage[s] = image
          /\ traffic[s] \in Range(svcRevs[s])
          /\ <<traffic[s]>> \notin Range(NamesBefore(s, oracle.n))
          /\ Distinct(cfg.services) => Deployed(s)
          /\ \A j \in Tasks \ {i} :
               /\ tpc[j] \in {"returned", "done"} => (TaskFailed(j) \/ CompleteTask(j))
               /\ AfterJoin => tpc[j] = "done"

\* the second of three deletes failed in task 1, and task 2 deleted its three
\* revisions
C18_Witness ==
  /\ pc = "afterDeploy"
  /\ Len(tcmds[1]) = 5
  /\ FailedAt(tcmds[1], "revisions delete")
  /\ Len(pending[1]) = 2
  /\ Len(cfg.services) >= 2
  /\ Len(tcmds[2]) = 6
  /\ AllOk(tcmds[2])

\* ------------------------------------------------------------------ deployServices with the commands' behaviour fixed
\* the commands a task of service s may issue when s has n revisions
TaskCommands(s, n) ==
  {<<"revisions list", <<s>>>>, <<"run deploy", <<s>>>>,
   <<"update-traffic --to-latest", <<s>>>>}
    \cup {<<"revisions delete", <<RevName(s, j)>>>> : j \in 1..n}

\* the sets of failing commands tried: for each service at most one command
\* that fails whenever it is run
FailSets(S, n) ==
  LET options == {{}} \cup UNION {{{x} : x \in TaskCommands(s, n)} : s \in S}
  IN  {UNION {f[s] : s \in S} :
         f \in {g \in [S -> options] :
                  \A s \in S : g[s] \subseteq TaskCommands(s, n)}}

\* deployServices called with a config parseConfig accepts, the commands that
\* fail being fixed for the run
InitFixed ==
  \E l \in ServiceLists, k \in 1..MaxKeep, n \in 0..MaxRevs :
    LET c == [beta |-> FALSE, services |-> l, keepImgs |-> 1, keepRevs |-> k]
    IN  \E F \in FailSets({l[i] : i \in 1..Len(l)}, n) :
          /\ InitWith(c, n, "spawn", fullImagePath(imageRepo, <<"h">>))
          /\ EnvWith({"package.json", "pnpm-lock.yaml"}, <<>>, FixedOracle(F, n))

SpecFixed == InitFixed /\ [][NextDeploy]_vars

\* ------------------------------------------------------------------ C19
\* The outcome of the tasks run one after the other in list order, computed
\* from the initial platform and the fixed behaviour of the commands.
Fails(op, target) == <<op, target>> \in oracle.fails
Failure(P, e) == [P EXCEPT !.failures = @ \cup {e}]
Platform0 ==
  [revs |-> InitialRevs(oracle.n),
   count |-> [s \in Names |-> oracle.n],
   image |-> [s \in Names |-> NoImage],
   traffic |-> [s \in Names |-> IF oracle.n = 0 THEN "" ELSE RevName(s, oracle.n)],
   failures |-> {}]

RECURSIVE SeqDelete(_, _)
SeqDelete(P, rs) ==
  IF rs = <<>> THEN P
  ELSE IF Fails("revisions delete", Head(rs))
       THEN Failure(P, Err("delete revision", Head(rs)))
       ELSE SeqDelete([P EXCEPT !.revs = [s \in Names |->
                                   SelectSeq(P.revs[s], LAMBDA r : <<r>> # Head(rs))]],
                      Tail(rs))

SeqTask(P, s) ==
  LET L == [j \in 1..Len(P.revs[s]) |-> <<P.revs[s][j]>>]
      P1 == [P EXCEPT !.revs[s] = <<RevName(s, P.count[s] + 1)>> \o @,
                      !.count[s] = @ + 1,
                      !.image[s] = image]
      P2 == [P1 EXCEPT !.traffic[s] = RevName(s, P.count[s] + 1)]
  IN  IF Fails("revisions list", <<s>>) THEN Failure(P, Err("list revisions for", <<s>>))
      ELSE IF Fails("run deploy", <<s>>) THEN Failure(P, Err("deploy service", <<s>>))
      ELSE IF Fails("update-traffic --to-latest", <<s>>)
           THEN Failure(P1, Err("update traffic for", <<s>>))
      ELSE SeqDelete(P2, Drop(L, Min({cfg.keepRevs, Len(L)})))

RECURSIVE SeqRun(_, _)
SeqRun(P, i) ==
  IF i > Len(cfg.services) THEN P ELSE SeqRun(SeqTask(P, cfg.services[i]), i + 1)

\* the final state: the live revisions, the revisions created, the images, the
\* traffic, and the set of the failures reported
FinalState ==
  [revs |-> svcRevs, count |-> revCount, image |-> svcImage, traffic |-> traffic,
   failures |-> Range(Entries(dsErr))]

\* C19 as stated: whatever the service list, repeated services included, and
\* the commands' behaviour being fixed, the state deployServices returns in is
\* the one the tasks run one after the other reach, so the same under every
\* interleaving.
C19_OutcomeIndependentOfSchedule ==
  pc = "afterDeploy" => FinalState = SeqRun(Platform0, 1)

\* C19, amended: the same for a service list that names no service twice.
C19_OutcomeIndependentDistinct ==
  (pc = "afterDeploy" /\ Distinct(cfg.services)) => FinalState = SeqRun(Platform0, 1)

\* two tasks failed, and the second one's error was collected first
C19_Witness ==
  /\ pc = "afterDeploy"
  /\ cfg.services = <<"A", "B">>
  /\ Cardinality(oracle.fails) = 2
  /\ Len(Entries(dsErr)) = 2
  /\ Entries(dsErr)[1] = terr[2]
  /\ Entries(dsErr)[2] = terr[1]
  /\ FailedAt(tcmds[1], "revisions delete")

\* ------------------------------------------------------------------ C20
NamedOnce(s) == Cardinality({i \in Tasks : cfg.services[i] = s}) = 1

\* C20: a task that returned without a failed command, having listed n
\* revisions, deleted only revisions of its list (taken before its deploy, so
\* not the revision it created): all but the first min(n, keepRevs) of them.
\* When its service is named once in the list, the list is that of the n
\* revisions the service had before the run, and the service is left with the
\* new revision followed by the first min(n, keepRevs) old ones: between one
\* and keepRevs + 1 live revisions, the new one among them.
C20_RetentionAfterSuccess ==
  \A i \in Tasks :
    TaskSucceeded(i) =>
      LET s == cfg.services[i]
          L == revisions[i]
          kept == Min({Len(L), cfg.keepRevs})
          D == Targets(tcmds[i], "revisions delete")
          new == RevName(s, oracle.n + 1)
      IN  /\ D = Drop(L, kept)
          /\ Range(D) \subseteq Range(L)
          /\ NamedOnce(s) =>
               /\ L = NamesBefore(s, oracle.n)
               /\ <<new>> \notin Range(D)
               /\ svcRevs[s] = <<new>> \o [j \in 1..kept |-> RevName(s, oracle.n + 1 - j)]
               /\ Len(svcRevs[s]) = Min({oracle.n, cfg.keepRevs}) + 1
               /\ Len(svcRevs[s]) >= 1 /\ Len(svcRevs[s]) <= cfg.keepRevs + 1
               /\ Head(svcRevs[s]) = new

\* three old revisions, two kept, one deleted, the new one on top; and a task
\* of a service with keepRevs + 1 live revisions
C20_Witness ==
  /\ TaskSucceeded(1)
  /\ NamedOnce(cfg.services[1])
  /\ oracle.n = 3
  /\ cfg.keepRevs = 2
  /\ svcRevs[cfg.services[1]] = <<"A-4", "A-3", "A-2">>
  /\ Targets(tcmds[1], "revisions delete") = <<<<"A-1">>>>

\* ------------------------------------------------------------------ deployServices with every step eventually taken
\* deployServices called with a config parseConfig accepts
InitLive ==
  \E l \in ServiceLists, k \in 1..MaxKeep, n \in 0..MaxRevs :
    /\ InitWith([beta |-> FALSE, services |-> l, keepImgs |-> 1, keepRevs |-> k],
                n, "spawn", fullImagePath(imageRepo, <<"h">>))
    /\ EnvWith({"package.json", "pnpm-lock.yaml"}, <<>>, FreeOracle(n))

\* every external command exits and the scheduler runs a goroutine that can
\* run: the fan-out does not stop while one of its steps can be taken
SpecLive == InitLive /\ [][NextDeploy]_vars /\ WF_vars(NextDeploy)

\* ------------------------------------------------------------------ C21
\* the tasks that have sent their error
Senders == {i \in Tasks : tpc[i] = "done" /\ terr[i] # NoErr}
\* a task that has returned can take its last step, send included
SendNotBlocked == \A i \in Tasks : tpc[i] = "returned" => ENABLED GoroutineExit(i)
NoProducerBlocks ==
  /\ pc \in {"spawn", "wait"} => Len(errs) = Cardinality(Senders)
  /\ Len(errs) <= Len(cfg.services)
  /\ SendNotBlocked

\* C21: the channel holds one error for each task that failed and has
\* finished, never more than there are services, and a task that has returned
\* from deployService is never blocked on its send; and, every step that can
\* be taken being taken eventually, deployServices returns, every task having
\* finished.
C21_FanOutTerminates ==
  /\ []NoProducerBlocks
  /\ <>(pc = "afterDeploy" /\ \A i \in Tasks : tpc[i] = "done")

\* every one of three tasks failed: the channel was full at the join
C21_Witness ==
  /\ pc = "afterDeploy"
  /\ Len(cfg.services) = 3
  /\ Len(Entries(dsErr)) = 3
  /\ \A i \in Tasks : tpc[i] = "done" /\ terr[i] # NoErr

\* ------------------------------------------------------------------ parseConfig's registry host
\* strings.HasPrefix
HasPrefix(s, prefix) ==
  Len(s) >= Len(prefix) /\ SubSeq(s, 1, Len(prefix)) = prefix

\* inferRegistryHost comparing the region as it was typed, trimmed only
inferRegistryHostCaseKept(r) ==
  LET region == TrimSpace(r)
  IN  IF HasPrefix(region, <<"a", "s", "i", "a">>)
      THEN <<"a", "s", "i", "a", ".", "g", "c", "r", ".", "i", "o">>
      ELSE IF HasPrefix(region, <<"e", "u", "r", "o", "p", "e">>)
              \/ HasPrefix(region, <<"e", "u">>)
      THEN <<"e", "u", ".", "g", "c", "r", ".", "i", "o">>
      ELSE IF HasPrefix(region, <<"u", "s">>)
      THEN <<"u", "s", ".", "g", "c", "r", ".", "i", "o">>
      ELSE <<"g", "c", "r", ".", "i", "o">>

inferRegistryHost(r) ==
  LET region == ToLower(TrimSpace(r))
  IN  IF HasPrefix(region, <<"a", "s", "i", "a">>)
      THEN <<"a", "s", "i", "a", ".", "g", "c", "r", ".", "i", "o">>
      ELSE IF HasPrefix(region, <<"e", "u", "r", "o", "p", "e">>)
              \/ HasPrefix(region, <<"e", "u">>)
      THEN <<"e", "u", ".", "g", "c", "r", ".", "i", "o">>
      ELSE IF HasPrefix(region, <<"u", "s">>)
      THEN <<"u", "s", ".", "g", "c", "r", ".", "i", "o">>
      ELSE <<"g", "c", "r", ".", "i", "o">>

\* parseConfig: host := strings.TrimSpace(*registryHost), inferred when empty
ParseConfigHost ==
  /\ ~host.done
  /\ LET h == TrimSpace(flags.registryHost)
     IN  host' = [done |-> TRUE,
                  value |-> IF h = <<>> THEN inferRegistryHost(flags.region) ELSE h]
  /\ UNCHANGED <<cfg, workdir, requested, lang, oracle, flags, pc, runVars, mainVars,
                 joinVars, taskVars, platformVars, cleanupVars>>

\* the regions tried, in lower case: some of each family, prefixes cut short
\* (as, e, u), names that hold a family's prefix further in (rus, me-eu), and
\* other regions
RegionWords ==
  { <<"a", "s", "i", "a", "-", "n", "e", "3">>, <<"a", "s", "i", "a">>,
    <<"a", "s">>, <<"a", "u", "-", "s", "e", "1">>,
    <<"e", "u", "r", "o", "p", "e", "-", "w", "1">>, <<"e", "u">>,
    <<"e", "u", "r", "-", "w">>, <<"e">>,
    <<"u", "s", "-", "c", "1">>, <<"u", "s">>, <<"u", "s", "a">>, <<"u">>,
    <<"r", "u", "s">>, <<"m", "e", "-", "e", "u">>, <<"s", "a", "-", "e", "1">> }
\* a text with white space before or after it
Padded(c) ==
  { pre \o c \o post : pre \in {<<>>, <<SP>>}, post \in {<<>>, <<SP>>, <<SP, NL>>} }
\* --region as typed: never empty (parseConfig rejects that), maybe blank
RegionFlags == (UNION {Variants(b) : b \in RegionWords}) \cup {<<SP>>}
\* the hosts given: none, gcr.io, GCR.IO, a host of one's own
HostWords ==
  { <<>>, <<"g", "c", "r", ".", "i", "o">>, <<"G", "C", "R", ".", "I", "O">>,
    <<"m", "y", ".", "h", "o", "s", "t">> }
HostFlags == UNION {Padded(h) : h \in HostWords}

\* parseConfig's last step on any region and any host flag
InitHost ==
  \E r \in RegionFlags, h \in HostFlags :
    /\ InitWith([beta |-> FALSE, services |-> <<"A">>, keepImgs |-> 1, keepRevs |-> 1],
                0, "build", NoImage)
    /\ EnvAll({"package.json", "pnpm-lock.yaml"}, <<>>, FreeOracle(0),
              [region |-> r, registryHost |-> h], NoHost)

NextHost == ParseConfigHost

SpecHost == InitHost /\ [][NextHost]_vars

\* ------------------------------------------------------------------ C22
\* the host of a region's family, the region in lower case
FamilyHost(b) ==
  IF HasPrefix(b, <<"a", "s", "i", "a">>)
  THEN <<"a", "s", "i", "a", ".", "g", "c", "r", ".", "i", "o">>
  ELSE IF HasPrefix(b, <<"e", "u", "r", "o", "p", "e">>) \/ HasPrefix(b, <<"e", "u">>)
  THEN <<"e", "u", ".", "g", "c", "r", ".", "i", "o">>
  ELSE IF HasPrefix(b, <<"u", "s">>)
  THEN <<"u", "s", ".", "g", "c", "r", ".", "i", "o">>
  ELSE <<"g", "c", "r", ".", "i", "o">>
\* the host inferred is that of the family of the region, whatever its case
\* and the white space around it
HostInferred ==
  \A b \in RegionWords \cup {<<>>} :
    flags.region \in Variants(b) => host.value = FamilyHost(b)

\* C22 as stated: with an empty --registry-host the host is the one of the
\* region's family (asia, europe or eu, us, else gcr.io), case and surrounding
\* white space of the region ignored; a --registry-host that is not empty is
\* the host, as given, whatever the region.
C22_HostAsGivenOrInferred ==
  host.done =>
    IF flags.registryHost = <<>>
    THEN HostInferred
    ELSE host.value = flags.registryHost

\* C22, amended: the same with --registry-host trimmed first: a flag that is
\* empty or blank gives the inferred host, any other gives the flag without
\* the white space around it, its case kept, whatever the region.
C22_HostTrimmedOrInferred ==
  host.done =>
    \A h \in HostWords :
      flags.registryHost \in Padded(h) =>
        IF h = <<>> THEN HostInferred ELSE host.value = h

\* an upper-case, padded region of the europe family with a blank host flag
C22_Witness ==
  /\ host.done
  /\ flags.registryHost = <<SP>>
  /\ flags.region = <<SP, "E", "U", "R", "O", "P", "E", "-", "W", "1", SP>>
  /\ host.value = <<"e", "u", ".", "g", "c", "r", ".", "i", "o">>

====
